---- MODULE Spec2Model ----
(***************************************************************************)
(* Ticket serialization of iroh-tickets, as used by examples/custom.rs     *)
(* (CustomIrohTicket, KIND "zed") and examples/endpoint.rs (the built-in   *)
(* EndpointTicket).                                                        *)
(*                                                                         *)
(* Representation.  A byte buffer is a sequence over 0..255.  A string is  *)
(* a sequence of one-character strings.  An Option is a sequence of length *)
(* 0 (None) or 1 (Some).  A BTreeSet is the strictly increasing sequence   *)
(* of its elements, which is the order its iterator yields them in.  A     *)
(* SocketAddr is [fam, ip, port] with fam 4 or 6.  An EndpointAddr is      *)
(* [id, relay_url, addrs]; the example reads the identity as node_id and   *)
(* the addresses as direct_addresses in to_bytes and writes them as id and *)
(* addrs in from_bytes: both name the same two fields.                     *)
(***************************************************************************)
EXTENDS Integers, Sequences, FiniteSets, TLC

VARIABLES
  ty,        \* the ticket type in use
  node,      \* the EndpointAddr being built, then held by the ticket
  hist,      \* the addresses in the order they were inserted
  pc,        \* where the run is
  probe,     \* how the string or buffer in flight was made
  text,      \* the string in flight
  bytes,     \* the buffer in flight
  pty,       \* the ticket type the string was parsed as
  result,    \* what the last parse returned
  shown,     \* what Display wrote
  human,     \* is_human_readable of the serializer and of the deserializer
  wire       \* what the serde Serialize impl handed to the serializer

vars == <<ty, node, hist, pc, probe, text, bytes, pty, result, shown, human, wire>>

\* ------------------------------------------------------------------ bounds

\* Addresses inserted into one EndpointAddr.
MaxInserts == 2

\* Entries of a hand-built (non-canonical) address list.
MaxList == 3

\* ---------------------------------------------------------------- universe

\* Bytes of an EndpointId: a 32-byte public key.
IdLen == 32

\* The keys the model knows: IdLen bytes, all 1 or all 2.
EndpointIds == { [i \in 1..IdLen |-> k] : k \in {1, 2} }

\* "http://a/" as UTF-8.
UrlA == <<104, 116, 116, 112, 58, 47, 47, 97, 47>>

RelayUrls == { UrlA }

V4(a, b, c, d, port) == [fam |-> 4, ip |-> <<a, b, c, d>>, port |-> port]

V6Loopback(port) == [fam |-> 6, ip |-> [i \in 1..16 |-> IF i = 16 THEN 1 ELSE 0], port |-> port]

\* 10.0.0.2:80, 10.0.0.1:4433 and [::1]:53.
SocketAddrs == { V4(10, 0, 0, 2, 80), V4(10, 0, 0, 1, 4433), V6Loopback(53) }

\* ------------------------------------------------------------ BTreeSet<SocketAddr>

\* Lexicographic order of two byte sequences of the same length.
RECURSIVE LexLess(_, _)
LexLess(s, t) ==
  IF s = <<>> \/ t = <<>> THEN FALSE
  ELSE IF Head(s) # Head(t) THEN Head(s) < Head(t)
  ELSE LexLess(Tail(s), Tail(t))

\* Ord for SocketAddr: V4 before V6, then the ip, then the port.
AddrLess(a, b) ==
  IF a.fam # b.fam THEN a.fam < b.fam
  ELSE IF a.ip # b.ip THEN LexLess(a.ip, b.ip)
  ELSE a.port < b.port

BTreeInsertAppend(s, a) == Append(s, a)

\* BTreeSet::insert: a present element is kept, a new one goes to its place.
BTreeInsert(s, a) ==
  IF \E i \in 1..Len(s) : s[i] = a THEN s
  ELSE LET k == Cardinality({ i \in 1..Len(s) : AddrLess(s[i], a) })
       IN  SubSeq(s, 1, k) \o <<a>> \o SubSeq(s, k + 1, Len(s))

Elems(s) == { s[i] : i \in 1..Len(s) }

\* ------------------------------------------------------------ postcard: encode

\* An unsigned integer as a varint: 7 bits a byte, low bits first.
RECURSIVE Varint(_)
Varint(n) ==
  IF n < 128 THEN <<n>> ELSE <<(n % 128) + 128>> \o Varint(n \div 128)

\* SocketAddr: the variant index, the ip's octets, the port.
EncSocketAddr(a) ==
  Varint(IF a.fam = 4 THEN 0 ELSE 1) \o a.ip \o Varint(a.port)

RECURSIVE EncAddrs(_)
EncAddrs(s) ==
  IF s = <<>> THEN <<>> ELSE EncSocketAddr(Head(s)) \o EncAddrs(Tail(s))

\* A sequence: its length, then its elements in iteration order.
EncAddrSeq(s) == Varint(Len(s)) \o EncAddrs(s)

\* Option<RelayUrl>: 0, or 1 and the url as a length-prefixed string.
EncRelay(r) ==
  IF r = <<>> THEN <<0>> ELSE <<1>> \o Varint(Len(r[1])) \o r[1]

\* Variant0AddrInfo, in field order.
EncVariant0AddrInfo(relay, addrs) == EncRelay(relay) \o EncAddrSeq(addrs)

\* Variant0NodeAddr: the EndpointId's bytes, then the info.
EncVariant0NodeAddr(id, relay, addrs) == id \o EncVariant0AddrInfo(relay, addrs)

\* TicketWireFormat::Variant0 is variant index 0.
EncTicketWireFormat(id, relay, addrs) ==
  Varint(0) \o EncVariant0NodeAddr(id, relay, addrs)

to_bytes_unsorted(n) ==
  EncTicketWireFormat(n.id, n.relay_url,
                      [i \in 1..Len(n.addrs) |-> n.addrs[Len(n.addrs) + 1 - i]])

\* Ticket::to_bytes of CustomIrohTicket.
to_bytes(n) == EncTicketWireFormat(n.id, n.relay_url, n.addrs)

\* ------------------------------------------------------------ postcard: decode

\* A decoding step's outcome: the value and the next position, or the error.
Ok(v, p) == [ok |-> TRUE, val |-> v, pos |-> p, err |-> ""]

Fail(e) == [ok |-> FALSE, val |-> <<>>, pos |-> 0, err |-> e]

\* The next n bytes of b from position p.
TakeN(b, p, n) ==
  IF p + n - 1 > Len(b) THEN Fail("DeserializeUnexpectedEnd")
  ELSE Ok(SubSeq(b, p, p + n - 1), p + n)

\* try_take_varint_*: at most maxBytes bytes, the last one at most lastMax.  A
\* value of 2^28 or more stands for every larger one: such a value is only ever
\* a length or a variant index, and no buffer of the model is that long.
RECURSIVE VarintLoop(_, _, _, _, _, _)
VarintLoop(b, p, i, out, maxBytes, lastMax) ==
  IF i >= maxBytes THEN Fail("DeserializeBadVarint")
  ELSE IF p > Len(b) THEN Fail("DeserializeUnexpectedEnd")
  ELSE LET val == b[p]
           carry == val % 128
           sum == IF i > 3 THEN (IF carry = 0 THEN out ELSE 268435456)
                  ELSE out + carry * (128 ^ i)
           out2 == IF sum > 268435456 THEN 268435456 ELSE sum
       IN  IF val < 128
           THEN IF i = maxBytes - 1 /\ val > lastMax
                THEN Fail("DeserializeBadVarint")
                ELSE Ok(out2, p + 1)
           ELSE VarintLoop(b, p + 1, i + 1, out2, maxBytes, lastMax)

TakeVarintU16(b, p) == VarintLoop(b, p, 0, 0, 3, 3)

TakeVarintU32(b, p) == VarintLoop(b, p, 0, 0, 5, 15)

TakeVarintUsize(b, p) == VarintLoop(b, p, 0, 0, 10, 1)

\* The step F on the value and position of r, or r's error.
Then(r, F(_, _)) == IF r.ok THEN F(r.val, r.pos) ELSE r

\* SocketAddr: variant 0 is V4 (4 octets), variant 1 is V6 (16 octets); any other
\* index is serde's invalid-value error, which postcard reports as SerdeDeCustom.
DecSocketAddr(b, p) ==
  Then(TakeVarintU32(b, p), LAMBDA v, p1 :
    IF v \notin {0, 1} THEN Fail("SerdeDeCustom")
    ELSE Then(TakeN(b, p1, IF v = 0 THEN 4 ELSE 16), LAMBDA ip, p2 :
           Then(TakeVarintU16(b, p2), LAMBDA port, p3 :
             Ok([fam |-> IF v = 0 THEN 4 ELSE 6, ip |-> ip, port |-> port], p3))))

\* The visitor of BTreeSet: k more elements, each inserted into the set.
RECURSIVE DecAddrs(_, _, _, _)
DecAddrs(b, p, k, acc) ==
  IF k = 0 THEN Ok(acc, p)
  ELSE Then(DecSocketAddr(b, p), LAMBDA a, p1 :
         DecAddrs(b, p1, k - 1, BTreeInsert(acc, a)))

DecAddrSeq(b, p) ==
  Then(TakeVarintUsize(b, p), LAMBDA n, p1 : DecAddrs(b, p1, n, <<>>))

\* RelayUrl from a string: the urls of the model parse, nothing else does.
ParseUrl(s, p) ==
  IF \E i \in 1..Len(s) : s[i] >= 128 THEN Fail("DeserializeBadUtf8")
  ELSE IF s \in RelayUrls THEN Ok(<<s>>, p)
  ELSE Fail("SerdeDeCustom")

\* Option<RelayUrl>: 0 is None, 1 is Some and a string follows.
DecRelay(b, p) ==
  Then(TakeN(b, p, 1), LAMBDA t, p1 :
    IF t[1] = 0 THEN Ok(<<>>, p1)
    ELSE IF t[1] # 1 THEN Fail("DeserializeBadOption")
    ELSE Then(TakeVarintUsize(b, p1), LAMBDA n, p2 :
           Then(TakeN(b, p2, n), LAMBDA s, p3 : ParseUrl(s, p3))))

\* EndpointId: IdLen bytes that are a key; bytes that are no key are refused.
DecEndpointId(b, p) ==
  Then(TakeN(b, p, IdLen), LAMBDA k, p1 :
    IF k \notin EndpointIds THEN Fail("SerdeDeCustom") ELSE Ok(k, p1))

DecVariant0AddrInfo(b, p) ==
  Then(DecRelay(b, p), LAMBDA r, p1 :
    Then(DecAddrSeq(b, p1), LAMBDA a, p2 :
      Ok([relay_url |-> r, direct_addresses |-> a], p2)))

DecVariant0NodeAddr(b, p) ==
  Then(DecEndpointId(b, p), LAMBDA k, p1 :
    Then(DecVariant0AddrInfo(b, p1), LAMBDA i, p2 :
      Ok([endpoint_id |-> k, info |-> i], p2)))

\* TicketWireFormat has the one variant, index 0; any other index is serde's
\* invalid-value error, which postcard reports as SerdeDeCustom.
DecTicketWireFormat(b, p) ==
  Then(TakeVarintU32(b, p), LAMBDA v, p1 :
    IF v # 0 THEN Fail("SerdeDeCustom") ELSE DecVariant0NodeAddr(b, p1))

\* postcard::from_bytes: the value decoded from the front of b.  The position
\* reached is dropped: bytes after the value are not looked at.
postcard_from_bytes(b) == DecTicketWireFormat(b, 1)

\* ------------------------------------------------------------ ParseError

\* The ticket-level error of a postcard error.
ParseErrorFromPostcard(e) == "MalformedPayload"

NoTicket == [id |-> <<>>, relay_url |-> <<>>, addrs |-> <<>>]

Parsed(n) == [ok |-> TRUE, ticket |-> n, err |-> "", cause |-> ""]

ParseFailed(e, c) == [ok |-> FALSE, ticket |-> NoTicket, err |-> e, cause |-> c]

\* postcard's result through `?`: its error as a ParseError.
Try(res, F(_)) ==
  IF res.ok THEN F(res.val)
  ELSE ParseFailed(ParseErrorFromPostcard(res.err), res.err)

from_bytes_no_relay(b) ==
  Try(postcard_from_bytes(b), LAMBDA n :
    Parsed([id |-> n.endpoint_id,
            relay_url |-> <<>>,
            addrs |-> n.info.direct_addresses]))

from_bytes_unwrap_or(b) ==
  IF postcard_from_bytes(b).ok
  THEN Parsed([id |-> postcard_from_bytes(b).val.endpoint_id,
               relay_url |-> postcard_from_bytes(b).val.info.relay_url,
               addrs |-> postcard_from_bytes(b).val.info.direct_addresses])
  ELSE Parsed([id |-> [i \in 1..IdLen |-> 0], relay_url |-> <<>>, addrs |-> <<>>])

\* Ticket::from_bytes of CustomIrohTicket.
from_bytes(b) ==
  Try(postcard_from_bytes(b), LAMBDA n :
    Parsed([id |-> n.endpoint_id,
            relay_url |-> n.info.relay_url,
            addrs |-> n.info.direct_addresses]))

\* ------------------------------------------------------------ text envelope

\* u8::to_ascii_uppercase.
ToAsciiUppercase(c) == IF c >= 97 /\ c <= 122 THEN c - 32 ELSE c

\* u8::to_ascii_lowercase.
ToAsciiLowercase(c) == IF c >= 65 /\ c <= 90 THEN c + 32 ELSE c

\* The base32 alphabet: A to Z, then 2 to 7.
Symbol(v) == IF v < 26 THEN 65 + v ELSE 50 + (v - 26)

\* The 5-bit value of a symbol; -1 for a character outside the alphabet.
SymbolVal(c) ==
  IF c >= 65 /\ c <= 90 THEN c - 65
  ELSE IF c >= 50 /\ c <= 55 THEN c - 24
  ELSE -1

\* Bit k (from 0, high bit first) of a sequence of w-bit digits; 0 past its end.
BitOf(s, w, k) ==
  IF k \div w + 1 > Len(s) THEN 0
  ELSE (s[k \div w + 1] \div (2 ^ (w - 1 - (k % w)))) % 2

\* BASE32_NOPAD encoding: 5 bits a symbol, the last one zero-filled, no padding.
Base32Encode(b) ==
  SubSeq([i \in 1..((Len(b) * 8 + 4) \div 5) |->
            Symbol(BitOf(b, 8, 5 * (i - 1)) * 16 + BitOf(b, 8, 5 * (i - 1) + 1) * 8
                   + BitOf(b, 8, 5 * (i - 1) + 2) * 4 + BitOf(b, 8, 5 * (i - 1) + 3) * 2
                   + BitOf(b, 8, 5 * (i - 1) + 4))],
         1, (Len(b) * 8 + 4) \div 5)

\* BASE32_NOPAD decoding: every character a symbol, a length some byte count
\* encodes to, and zero bits after the last whole byte.
Base32Decode(s) ==
  LET v == SubSeq([i \in 1..Len(s) |-> SymbolVal(s[i])], 1, Len(s))
      n == (Len(s) * 5) \div 8
  IN  IF \E i \in 1..Len(s) : v[i] < 0 THEN Fail("InvalidEncoding")
      ELSE IF (Len(s) % 8) \in {1, 3, 6} THEN Fail("InvalidEncoding")
      ELSE IF \E k \in (8 * n)..(5 * Len(s) - 1) : BitOf(v, 5, k) = 1
           THEN Fail("InvalidEncoding")
      ELSE Ok(SubSeq([j \in 1..n |->
                 BitOf(v, 5, 8 * (j - 1)) * 128 + BitOf(v, 5, 8 * (j - 1) + 1) * 64
                 + BitOf(v, 5, 8 * (j - 1) + 2) * 32 + BitOf(v, 5, 8 * (j - 1) + 3) * 16
                 + BitOf(v, 5, 8 * (j - 1) + 4) * 8 + BitOf(v, 5, 8 * (j - 1) + 5) * 4
                 + BitOf(v, 5, 8 * (j - 1) + 6) * 2 + BitOf(v, 5, 8 * (j - 1) + 7)],
                1, n), 0)

MapSeq(s, Op(_)) == SubSeq([i \in 1..Len(s) |-> Op(s[i])], 1, Len(s))

\* ------------------------------------------------------------ Ticket

TicketTypes == {"CustomIrohTicket", "EndpointTicket"}

\* "endpoint" in ASCII: the KIND of the built-in EndpointTicket.
KIND_endpoint == <<101, 110, 100, 112, 111, 105, 110, 116>>

KIND_e == <<101>>

\* "zed" in ASCII: the KIND of CustomIrohTicket.
KIND_zed == <<122, 101, 100>>

KIND(t) == IF t = "CustomIrohTicket" THEN KIND_zed ELSE KIND_endpoint

StartsWith(s, k) == Len(s) >= Len(k) /\ SubSeq(s, 1, Len(k)) = k

\* The decoded bytes parsed, or the decoder's error as a ParseError.
DecodedThen(d) ==
  IF d.ok THEN from_bytes(d.val) ELSE ParseFailed("InvalidEncoding", d.err)

\* Ticket::serialize: the kind, then the bytes in base32, all in lowercase.
serialize(t, n) ==
  MapSeq(KIND(t) \o Base32Encode(to_bytes(n)), ToAsciiLowercase)

\* Ticket::deserialize: the kind is stripped, the rest uppercased, decoded and
\* parsed.
deserialize(t, s) ==
  IF ~StartsWith(s, KIND(t)) THEN ParseFailed("UnknownKind", "")
  ELSE DecodedThen(Base32Decode(MapSeq(SubSeq(s, Len(KIND(t)) + 1, Len(s)),
                                       ToAsciiUppercase)))

to_string_debug(t, n) == KIND(t) \o <<123>> \o Base32Encode(n.id) \o <<125>>

\* Display for CustomIrohTicket.
to_string(t, n) == serialize(t, n)

\* FromStr for CustomIrohTicket.
from_str(t, s) == deserialize(t, s)

\* CustomIrohTicket::new.
new(n) == n

\* ------------------------------------------------------------ serde

NoWire == [form |-> "none", str |-> <<>>, addr |-> NoTicket]

serde_serialize_always_str(t, n, h) ==
  [form |-> "str", str |-> to_string(t, n), addr |-> NoTicket]

\* Serialize for CustomIrohTicket: the string for a human-readable serializer,
\* the EndpointAddr itself for any other.
serde_serialize(t, n, h) ==
  IF h THEN [form |-> "str", str |-> to_string(t, n), addr |-> NoTicket]
  ELSE [form |-> "struct", str |-> <<>>, addr |-> n]

\* map_err(serde::de::Error::custom)
MapErrCustom(r) == IF r.ok THEN r ELSE ParseFailed("DeError", r.err)

\* Deserialize for CustomIrohTicket.  A value of the other form is the
\* deserializer's error.
serde_deserialize(t, w, h) ==
  IF h
  THEN IF w.form # "str" THEN ParseFailed("DeError", "invalid type")
       ELSE MapErrCustom(from_str(t, w.str))
  ELSE IF w.form # "struct" THEN ParseFailed("DeError", "invalid type")
       ELSE Parsed(new(w.addr))

\* ------------------------------------------------------------ the run

NoResult == [ok |-> FALSE, ticket |-> NoTicket, err |-> "", cause |-> ""]

\* Characters a corrupted string gets: a, 7, A and 1 (the last is no symbol).
CorruptChars == {97, 55, 65, 49}

\* Bytes appended after a whole encoding.
TrailingBytes == { <<0>>, <<255>>, <<0, 7>> }

\* Variant indices other than Variant0's, in one byte and in two.
OtherRevisions == {1, 2, 300}

\* Family indices other than V4's and V6's.
OtherFamilies == {2, 4}

Init ==
  /\ ty \in TicketTypes
  /\ node \in [id : EndpointIds,
               relay_url : {<<>>} \cup { <<u>> : u \in RelayUrls },
               addrs : {<<>>}]
  /\ hist = <<>>
  /\ pc = "build"
  /\ probe = "none"
  /\ text = <<>>
  /\ bytes = <<>>
  /\ pty = ty
  /\ result = NoResult
  /\ shown = <<>>
  /\ human = FALSE
  /\ wire = NoWire

\* The endpoint learns one more direct address.
Insert(a) ==
  /\ pc = "build"
  /\ Len(hist) < MaxInserts
  /\ node' = [node EXCEPT !.addrs = BTreeInsert(node.addrs, a)]
  /\ hist' = Append(hist, a)
  /\ UNCHANGED <<ty, pc, probe, text, bytes, pty, result, shown, human, wire>>

\* let ticket = CustomIrohTicket::new(addr)
New ==
  /\ pc = "build"
  /\ node' = new(node)
  /\ pc' = "ticket"
  /\ UNCHANGED <<ty, hist, probe, text, bytes, pty, result, shown, human, wire>>

\* println!("ticket: {}", &ticket).  Writing the ticket out changes nothing the
\* later steps read, so the run that prints is followed no further.
Display ==
  /\ pc = "ticket"
  /\ shown' = to_string(ty, node)
  /\ pc' = "shown"
  /\ UNCHANGED <<ty, node, hist, probe, text, bytes, pty, result, human, wire>>

\* let ticket = ticket.serialize()
Serialize ==
  /\ pc = "ticket"
  /\ text' = serialize(ty, node)
  /\ probe' = "valid"
  /\ pc' = "text"
  /\ UNCHANGED <<ty, node, hist, bytes, pty, result, shown, human, wire>>

\* One character of the body is replaced by another on the way.
CorruptChar(i, c) ==
  /\ pc = "text"
  /\ probe = "valid"
  /\ i > Len(KIND(ty))
  /\ i <= Len(text)
  /\ c # text[i]
  /\ text' = [text EXCEPT ![i] = c]
  /\ probe' = "corrupt"
  /\ UNCHANGED <<ty, node, hist, pc, bytes, pty, result, shown, human, wire>>

\* T::from_str(&ticket), T the ticket's own type or the other one.
FromStr(t) ==
  /\ pc = "text"
  /\ pty' = t
  /\ result' = from_str(t, text)
  /\ pc' = "parsed_text"
  /\ UNCHANGED <<ty, node, hist, probe, text, bytes, shown, human, wire>>

\* ticket.to_bytes()
ToBytes ==
  /\ pc = "ticket"
  /\ bytes' = to_bytes(node)
  /\ probe' = "valid"
  /\ pc' = "bytes"
  /\ UNCHANGED <<ty, node, hist, text, pty, result, shown, human, wire>>

\* The last n bytes are lost.
Truncate(n) ==
  /\ pc = "bytes"
  /\ probe = "valid"
  /\ n \in 1..Len(bytes)
  /\ bytes' = SubSeq(bytes, 1, Len(bytes) - n)
  /\ probe' = "truncated"
  /\ UNCHANGED <<ty, node, hist, pc, text, pty, result, shown, human, wire>>

\* Bytes follow the encoding.
AppendTrailing(x) ==
  /\ pc = "bytes"
  /\ probe = "valid"
  /\ bytes' = bytes \o x
  /\ probe' = "trailing"
  /\ UNCHANGED <<ty, node, hist, pc, text, pty, result, shown, human, wire>>

\* The buffer of another revision d: its variant index, then a well-formed
\* revision-0 payload (whole) or nothing.
OtherRevision(d, whole) ==
  /\ pc = "bytes"
  /\ probe = "valid"
  /\ bytes' = Varint(d) \o (IF whole THEN Tail(bytes) ELSE <<>>)
  /\ probe' = "revision"
  /\ UNCHANGED <<ty, node, hist, pc, text, pty, result, shown, human, wire>>

\* A revision-0 buffer whose one address has the family index x, which is
\* neither V4's nor V6's.
BadFamily(x) ==
  /\ pc = "bytes"
  /\ probe = "valid"
  /\ bytes' = Varint(0) \o node.id \o EncRelay(node.relay_url) \o Varint(1)
                 \o Varint(x) \o <<10, 0, 0, 1>> \o Varint(80)
  /\ probe' = "family"
  /\ UNCHANGED <<ty, node, hist, pc, text, pty, result, shown, human, wire>>

\* A revision-0 buffer of the same ticket written by another encoder: the
\* addresses of the set in the order s, which is not the sorted one or repeats
\* an address.
Relist(s) ==
  /\ pc = "bytes"
  /\ probe = "valid"
  /\ Elems(s) = Elems(node.addrs)
  /\ s # node.addrs
  /\ bytes' = EncTicketWireFormat(node.id, node.relay_url, s)
  /\ probe' = "relisted"
  /\ UNCHANGED <<ty, node, hist, pc, text, pty, result, shown, human, wire>>

\* T::from_bytes(&bytes)
FromBytes ==
  /\ pc = "bytes"
  /\ result' = from_bytes(bytes)
  /\ pc' = "parsed_bytes"
  /\ UNCHANGED <<ty, node, hist, probe, text, bytes, pty, shown, human, wire>>

\* The parsed ticket is encoded again.
ReEncode ==
  /\ pc = "parsed_bytes"
  /\ result.ok
  /\ bytes' = to_bytes(result.ticket)
  /\ pc' = "reencoded"
  /\ UNCHANGED <<ty, node, hist, probe, text, pty, result, shown, human, wire>>

\* The ticket is serialized by a serde serializer whose is_human_readable is h.
SerdeSerialize(h) ==
  /\ pc = "ticket"
  /\ human' = h
  /\ wire' = serde_serialize(ty, node, h)
  /\ pc' = "wire"
  /\ UNCHANGED <<ty, node, hist, probe, text, bytes, pty, result, shown>>

\* The value is deserialized by the deserializer of the same format.
SerdeDeserialize ==
  /\ pc = "wire"
  /\ result' = serde_deserialize(ty, wire, human)
  /\ pc' = "parsed_wire"
  /\ UNCHANGED <<ty, node, hist, probe, text, bytes, pty, shown, human, wire>>

Next ==
  \/ \E a \in SocketAddrs : Insert(a)
  \/ New
  \/ Display
  \/ Serialize
  \/ \E i \in 1..Len(text), c \in CorruptChars : CorruptChar(i, c)
  \/ \E t \in TicketTypes : FromStr(t)
  \/ ToBytes
  \/ \E n \in 1..Len(bytes) : Truncate(n)
  \/ \E x \in TrailingBytes : AppendTrailing(x)
  \/ \E d \in OtherRevisions, whole \in BOOLEAN : OtherRevision(d, whole)
  \/ \E x \in OtherFamilies : BadFamily(x)
  \/ \E k \in 0..MaxList : \E s \in [1..k -> Elems(node.addrs)] : Relist(s)
  \/ FromBytes
  \/ ReEncode
  \/ \E h \in BOOLEAN : SerdeSerialize(h)
  \/ SerdeDeserialize

Spec == Init /\ [][Next]_vars

\* ------------------------------------------------------------ properties

\* The sorted sequence of a set of addresses.
RECURSIVE SortSet(_)
SortSet(S) ==
  IF S = {} THEN <<>>
  ELSE LET m == CHOOSE x \in S : \A y \in S \ {x} : AddrLess(x, y)
       IN  <<m>> \o SortSet(S \ {m})

RevisionRejectedAsUnsupported ==
  (pc = "parsed_bytes" /\ probe = "revision")
    => /\ ~result.ok
       /\ result.err = "UnsupportedRevision"
       /\ result.err # from_bytes(Varint(0) \o node.id \o <<0, 1, 2>>).err

\* C4: from_bytes on a whole encoding followed by more bytes fails with
\* TrailingData and does not return the ticket of the encoding.
TrailingDataRejected ==
  (pc = "parsed_bytes" /\ probe = "trailing")
    => (~result.ok /\ result.err = "TrailingData")

\* C5: from_bytes on to_bytes(t) without its last n bytes, 1 <= n <= its
\* length, returns an error and no ticket.
TruncationFails ==
  (pc = "parsed_bytes" /\ probe = "truncated")
    => (~result.ok /\ result.ticket = NoTicket)

TruncationFailsWitness ==
  /\ pc = "parsed_bytes" /\ probe = "truncated"
  /\ Len(node.addrs) = 2
  /\ Len(bytes) = Len(to_bytes(node)) - 1
  /\ ~result.ok

\* C6: to_bytes and serialize are functions of the logical value alone: the
\* identity, the relay hint and the set of addresses inserted, in whatever
\* order; the addresses are written in sorted order.
Deterministic ==
  /\ (pc = "bytes" /\ probe = "valid")
       => bytes = EncTicketWireFormat(node.id, node.relay_url, SortSet(Elems(hist)))
  /\ (pc = "text" /\ probe = "valid")
       => text = KIND(ty) \o MapSeq(Base32Encode(
                   EncTicketWireFormat(node.id, node.relay_url, SortSet(Elems(hist)))),
                   ToAsciiLowercase)

DeterministicWitness ==
  /\ pc = "bytes" /\ probe = "valid"
  /\ Len(hist) = 2
  /\ AddrLess(hist[2], hist[1])

CorruptionDetected ==
  (/\ pc = "parsed_text" /\ probe = "corrupt" /\ pty = ty
   /\ MapSeq(text, ToAsciiLowercase) # serialize(ty, node))
    => (~result.ok /\ result.err \in {"InvalidEncoding", "MalformedPayload"})

\* C9: Display writes what Ticket::serialize returns, and from_str returns what
\* Ticket::deserialize returns, the ticket or the error.
DisplayAndFromStrDelegate ==
  /\ pc = "shown" => shown = serialize(ty, node)
  /\ pc = "parsed_text" => result = deserialize(pty, text)

DisplayAndFromStrDelegateWitness ==
  /\ pc = "shown"
  /\ Len(shown) > Len(KIND(ty))
  /\ node.addrs # <<>>

\* C10: from_bytes on a revision-0 buffer whose addresses are out of order or
\* repeated returns the ticket from_bytes returns on the canonical encoding of
\* the same set, and to_bytes of that ticket is the canonical encoding.
SetReconstructed ==
  /\ (pc \in {"parsed_bytes", "reencoded"} /\ probe = "relisted")
       => (result.ok /\ result = from_bytes(to_bytes(node)))
  /\ (pc = "reencoded" /\ probe = "relisted")
       => bytes = EncTicketWireFormat(node.id, node.relay_url, SortSet(Elems(node.addrs)))

SetReconstructedWitness ==
  /\ pc = "reencoded" /\ probe = "relisted"
  /\ Len(node.addrs) = 2
  /\ Len(result.ticket.addrs) = 2

====
